---- MODULE Spec2Model ----
(***************************************************************************)
(* A model of src/EDA.py, the "India Car Sales" exploratory-data-analysis  *)
(* script: the memoised synthetic-data generator load_data, the three      *)
(* report functions explore_data, create_visualizations and                *)
(* generate_insights_and_recommendations, and main, which the dashboard    *)
(* framework re-executes from the top on every interaction.                *)
(*                                                                         *)
(* Two specifications:                                                     *)
(*   Spec    a session: runs of main, one after another, sharing the       *)
(*           framework's cache of load_data;                               *)
(*   FnSpec  the three report functions applied, in any order and any      *)
(*           number of times, to a dataset drawn from a bounded family.    *)
(***************************************************************************)
EXTENDS Integers, Sequences, FiniteSets, TLC

VARIABLES
    cache,        \* st.cache_data's memo of load_data: <<>> or <<dataset>>
    draws,        \* how many times the body of load_data has executed
    runs,         \* how many runs of main have started
    pc,           \* position inside main (or "fn" in FnSpec)
    df,           \* main's local df: <<>> (unbound) or <<dataset>>
    first_df,     \* history: the dataset the first run obtained, <<>> before
    shown,        \* st.header(...) titles rendered by the current run, in order
    explored,     \* <<>> or <<what explore_data rendered>>
    visualized,   \* <<>> or <<what create_visualizations rendered>>
    insights      \* <<>> or <<what generate_insights_and_recommendations rendered>>

vars == <<cache, draws, runs, pc, df, first_df, shown, explored, visualized, insights>>

(***************************************************************************)
(* Bounds of the model.                                                    *)
(***************************************************************************)
\* the pseudo-random generator is seeded with one of 0..MaxSeed
MaxSeed == 5
\* a session has at most MaxRuns runs of main
MaxRuns == 3
\* the free-form datasets of FnSpec have 1..MaxRows rows
MaxRows == 2

(***************************************************************************)
(* Program constants.                                                      *)
(***************************************************************************)
Reps == 20
Size == 100
YearLo == 2015
YearHi == 2024
SalesLo == 5000
SalesHi == 50000
PriceLo == 500000
PriceHi == 2000000
TopN == 10

Makes == <<"Maruti", "Hyundai", "Tata", "Mahindra", "Honda">>
Models == <<"Swift", "i20", "Nexon", "XUV300", "City">>
FuelTypes == <<"Petrol", "Diesel", "Electric", "CNG">>
BodyTypes == <<"Hatchback", "Sedan", "SUV", "MUV">>

(***************************************************************************)
(* Python strings compare by code point, lexicographically.                *)
(***************************************************************************)
ord ==
    ("Maruti" :> <<77, 97, 114, 117, 116, 105>>) @@
    ("Hyundai" :> <<72, 121, 117, 110, 100, 97, 105>>) @@
    ("Tata" :> <<84, 97, 116, 97>>) @@
    ("Mahindra" :> <<77, 97, 104, 105, 110, 100, 114, 97>>) @@
    ("Honda" :> <<72, 111, 110, 100, 97>>) @@
    ("Swift" :> <<83, 119, 105, 102, 116>>) @@
    ("i20" :> <<105, 50, 48>>) @@
    ("Nexon" :> <<78, 101, 120, 111, 110>>) @@
    ("XUV300" :> <<88, 85, 86, 51, 48, 48>>) @@
    ("City" :> <<67, 105, 116, 121>>) @@
    ("Petrol" :> <<80, 101, 116, 114, 111, 108>>) @@
    ("Diesel" :> <<68, 105, 101, 115, 101, 108>>) @@
    ("Electric" :> <<69, 108, 101, 99, 116, 114, 105, 99>>) @@
    ("CNG" :> <<67, 78, 71>>) @@
    ("Hatchback" :> <<72, 97, 116, 99, 104, 98, 97, 99, 107>>) @@
    ("Sedan" :> <<83, 101, 100, 97, 110>>) @@
    ("SUV" :> <<83, 85, 86>>) @@
    ("MUV" :> <<77, 85, 86>>) @@
    ("A" :> <<65>>) @@ ("B" :> <<66>>) @@ ("C" :> <<67>>) @@ ("D" :> <<68>>) @@
    ("E" :> <<69>>) @@ ("F" :> <<70>>) @@ ("G" :> <<71>>) @@ ("H" :> <<72>>) @@
    ("I" :> <<73>>) @@ ("J" :> <<74>>) @@ ("K" :> <<75>>) @@ ("L" :> <<76>>)

RECURSIVE SeqLess(_, _)
SeqLess(a, b) ==
    IF b = <<>> THEN FALSE
    ELSE IF a = <<>> THEN TRUE
    ELSE IF Head(a) # Head(b) THEN Head(a) < Head(b)
    ELSE SeqLess(Tail(a), Tail(b))

StrLess(a, b) == SeqLess(ord[a], ord[b])

\* the order pandas sorts the values of a column in: integers by value,
\* text by code point
Less(kind, a, b) == IF kind = "O" THEN StrLess(a, b) ELSE a < b

Min2(a, b) == IF a < b THEN a ELSE b

(***************************************************************************)
(* numpy arrays and Python lists: [values, kind], kind the numpy dtype     *)
(* kind ("i" integer, "U" unicode, "O" Python objects, "b" boolean).       *)
(***************************************************************************)
\* list * k
Repeat(list, k) ==
    [values |-> [i \in 1..(Len(list) * k) |-> list[((i - 1) % Len(list)) + 1]],
     kind |-> "O"]

\* The i-th of the numbers below k that the generator seeded with seed hands
\* out: a stream that depends on the seed, and for seed 0 reaches both k - 1
\* (first) and 0 (second).
Draw(seed, k, i) == ((seed + 1) * (i + k - 2)) % k

\* mutant of randint: the upper end taken as inclusive
randint_inclusive(seed, lo, hi, size) ==
    [values |-> [i \in 1..size |-> lo + Draw(seed, hi - lo + 1, i)], kind |-> "i"]

\* np.random.randint(lo, hi, size): size integers of [lo, hi)
randint(seed, lo, hi, size) ==
    [values |-> [i \in 1..size |-> lo + Draw(seed, hi - lo, i)], kind |-> "i"]

\* np.random.choice(list, size): size elements of list
choice(seed, list, size) ==
    [values |-> [i \in 1..size |-> list[Draw(seed, Len(list), i) + 1]], kind |-> "U"]

(***************************************************************************)
(* pd.DataFrame(dict): the columns in the dict's insertion order.  A       *)
(* dataset is [columns, n, data, kinds, na]: the column names in order,    *)
(* the row count, the values and dtype kind of each column, and the rows   *)
(* of each column whose value is missing.  Arrays of unequal length make   *)
(* the constructor raise ValueError.                                       *)
(***************************************************************************)
ValueError == [raised |-> "ValueError"]

Names(items) == {items[j][1] : j \in 1..Len(items)}
Item(items, c) == items[CHOOSE j \in 1..Len(items) : items[j][1] = c][2]

DataFrame(items) ==
    IF \E j \in 1..Len(items) : Len(items[j][2].values) # Len(items[1][2].values)
    THEN ValueError
    ELSE [columns |-> [j \in 1..Len(items) |-> items[j][1]],
          n       |-> Len(items[1][2].values),
          data    |-> [c \in Names(items) |-> Item(items, c).values],
          kinds   |-> [c \in Names(items) |->
                         IF Item(items, c).kind = "U" THEN "O" ELSE Item(items, c).kind],
          na      |-> [c \in Names(items) |-> {}]]

\* mutant of SampleData: 19 repetitions and 95 draws
SampleDataShort(s) ==
    << <<"Make",      Repeat(Makes, Reps - 1)>>,
       <<"Model",     Repeat(Models, Reps - 1)>>,
       <<"Year",      randint(s, YearLo, YearHi, Size - 5)>>,
       <<"Sales",     randint(s, SalesLo, SalesHi, Size - 5)>>,
       <<"Price",     randint(s, PriceLo, PriceHi, Size - 5)>>,
       <<"Fuel_Type", choice(s, FuelTypes, Size - 5)>>,
       <<"Body_Type", choice(s, BodyTypes, Size - 5)>> >>

\* mutant of SampleData: the years converted to text
SampleDataTextYear(s) ==
    << <<"Make",      Repeat(Makes, Reps)>>,
       <<"Model",     Repeat(Models, Reps)>>,
       <<"Year",      [randint(s, YearLo, YearHi, Size) EXCEPT !.kind = "U"]>>,
       <<"Sales",     randint(s, SalesLo, SalesHi, Size)>>,
       <<"Price",     randint(s, PriceLo, PriceHi, Size)>>,
       <<"Fuel_Type", choice(s, FuelTypes, Size)>>,
       <<"Body_Type", choice(s, BodyTypes, Size)>> >>

\* the body of load_data, lines 11-20, with the generator's seed made explicit
SampleData(s) ==
    << <<"Make",      Repeat(Makes, Reps)>>,
       <<"Model",     Repeat(Models, Reps)>>,
       <<"Year",      randint(s, YearLo, YearHi, Size)>>,
       <<"Sales",     randint(s, SalesLo, SalesHi, Size)>>,
       <<"Price",     randint(s, PriceLo, PriceHi, Size)>>,
       <<"Fuel_Type", choice(s, FuelTypes, Size)>>,
       <<"Body_Type", choice(s, BodyTypes, Size)>> >>

load_data_body(s) == DataFrame(SampleData(s))

Seeds == 0..MaxSeed

(***************************************************************************)
(* Series and the pandas operations the report functions call.  A Series   *)
(* is a sequence of <<index label, value>> pairs.                          *)
(***************************************************************************)
Rows(d) == 1..d.n

\* the rows where column c holds a value (pandas skips missing values)
notna(d, c) == Rows(d) \ d.na[c]

\* Series.sum() over the rows I of column c, missing values skipped
RECURSIVE SumTo(_, _, _, _)
SumTo(d, c, I, k) ==
    IF k = 0 THEN 0
    ELSE (IF k \in I /\ k \notin d.na[c] THEN d.data[c][k] ELSE 0) + SumTo(d, c, I, k - 1)

Sum(d, c, I) == SumTo(d, c, I, d.n)

\* the values of S in ascending order
RECURSIVE SortSet(_, _)
SortSet(S, kind) ==
    IF S = {} THEN <<>>
    ELSE LET m == CHOOSE x \in S : \A y \in S : ~Less(kind, y, x)
         IN  <<m>> \o SortSet(S \ {m}, kind)

\* Series.unique() / nunique(): the distinct values present
unique(d, c) == {d.data[c][i] : i \in notna(d, c)}
nunique(d, c) == Cardinality(unique(d, c))

\* the keys of df.groupby(key): the distinct values present, sorted
GroupKeys(d, key) == SortSet(unique(d, key), d.kinds[key])
GroupRows(d, key, k) == {i \in notna(d, key) : d.data[key][i] = k}

\* df.groupby(key)[val].sum()
GroupSum(d, key, val) ==
    LET keys == GroupKeys(d, key)
    IN  [j \in 1..Len(keys) |-> <<keys[j], Sum(d, val, GroupRows(d, key, keys[j]))>>]

\* a mean is kept exact as [sum, count]; count = 0 is NaN
Mean(d, c, I) == [sum |-> Sum(d, c, I), count |-> Cardinality(I \ d.na[c])]

MeanLess(a, b) ==
    LET qa == a.sum \div a.count
        qb == b.sum \div b.count
    IN  \/ qa < qb
        \/ qa = qb /\ (a.sum % a.count) * b.count < (b.sum % b.count) * a.count

\* df.groupby(key)[val].mean()
GroupMean(d, key, val) ==
    LET keys == GroupKeys(d, key)
    IN  [j \in 1..Len(keys) |-> <<keys[j], Mean(d, val, GroupRows(d, key, keys[j]))>>]

\* Series.max() and Series.idxmax(): the largest value, and the label of its
\* first occurrence
max(s) == s[CHOOSE j \in 1..Len(s) : \A k \in 1..Len(s) : s[k][2] <= s[j][2]][2]

idxmax(s) ==
    LET best == {j \in 1..Len(s) : \A k \in 1..Len(s) : s[k][2] <= s[j][2]}
    IN  s[CHOOSE j \in best : \A k \in best : j <= k][1]

\* idxmax of a Series of means, NaN skipped
idxmax_mean(s) ==
    LET ok   == {j \in 1..Len(s) : s[j][2].count > 0}
        best == {j \in ok : \A k \in ok : ~MeanLess(s[j][2], s[k][2])}
    IN  s[CHOOSE j \in best : \A k \in best : j <= k][1]

\* Series.min() / max() of a column
colmin(d, c) == CHOOSE x \in unique(d, c) : \A y \in unique(d, c) : ~Less(d.kinds[c], y, x)
colmax(d, c) == CHOOSE x \in unique(d, c) : \A y \in unique(d, c) : ~Less(d.kinds[c], x, y)

\* Series.sort_values(ascending=False): kind defaults to 'quicksort', which is
\* not a stable sort, so entries of equal value come out in any order
RECURSIVE Orders(_, _)
Orders(s, I) ==
    IF I = {} THEN {<<>>}
    ELSE UNION { {<<s[j]>> \o r : r \in Orders(s, I \ {j})} :
                 j \in {j \in I : \A k \in I : s[k][2] <= s[j][2]} }

\* mutant of sort_values_desc: ascending=False left out
RECURSIVE OrdersAsc(_, _)
OrdersAsc(s, I) ==
    IF I = {} THEN {<<>>}
    ELSE UNION { {<<s[j]>> \o r : r \in OrdersAsc(s, I \ {j})} :
                 j \in {j \in I : \A k \in I : s[j][2] <= s[k][2]} }

sort_values_asc(s) == OrdersAsc(s, 1..Len(s))

sort_values_desc(s) == Orders(s, 1..Len(s))

\* Series.head(k)
head(s, k) == SubSeq(s, 1, Min2(k, Len(s)))

\* Series.value_counts() restricted to what mode() needs: the count of v
CountOf(d, c, v) == Cardinality({i \in notna(d, c) : d.data[c][i] = v})

\* mutant of mode: the most frequent values in the order they first appear
RECURSIVE FirstSeen(_, _, _, _)
FirstSeen(d, c, S, i) ==
    IF i > d.n THEN <<>>
    ELSE IF i \notin d.na[c] /\ d.data[c][i] \in S
         THEN <<d.data[c][i]>> \o FirstSeen(d, c, S \ {d.data[c][i]}, i + 1)
         ELSE FirstSeen(d, c, S, i + 1)

mode_first_seen(d, c) ==
    FirstSeen(d, c, {v \in unique(d, c) : \A w \in unique(d, c) : CountOf(d, c, w) <= CountOf(d, c, v)}, 1)

\* Series.mode(): the most frequent values, sorted ascending
mode(d, c) ==
    SortSet({v \in unique(d, c) : \A w \in unique(d, c) : CountOf(d, c, w) <= CountOf(d, c, v)},
            d.kinds[c])

\* df.isnull().sum(): per column, in column order, the number of missing values
isnull_sum(d) == [j \in 1..Len(d.columns) |-> <<d.columns[j], Cardinality(d.na[d.columns[j]])>>]

\* Series.sum() of a Series
RECURSIVE SeriesSum(_)
SeriesSum(s) == IF s = <<>> THEN 0 ELSE Head(s)[2] + SeriesSum(Tail(s))

\* s[s > 0]: boolean-mask selection keeps the order
RECURSIVE Positive(_)
Positive(s) ==
    IF s = <<>> THEN <<>>
    ELSE (IF Head(s)[2] > 0 THEN <<Head(s)>> ELSE <<>>) \o Positive(Tail(s))

\* the columns df.describe() reports: the numeric ones, in column order, or
\* every column when none is numeric
RECURSIVE Filter(_, _)
Filter(cols, S) ==
    IF cols = <<>> THEN <<>>
    ELSE (IF Head(cols) \in S THEN <<Head(cols)>> ELSE <<>>) \o Filter(Tail(cols), S)

NumericKinds == {"i", "f"}
CategoricalKinds == {"O", "c"}

describe_columns(d) ==
    LET num == Filter(d.columns, {c \in DOMAIN d.kinds : d.kinds[c] \in NumericKinds})
    IN  IF num = <<>> THEN d.columns ELSE num

describe(d) ==
    LET cols == describe_columns(d)
    IN  [j \in 1..Len(cols) |->
            <<cols[j], [count |-> Cardinality(notna(d, cols[j])),
                        mean  |-> Mean(d, cols[j], Rows(d)),
                        min   |-> colmin(d, cols[j]),
                        max   |-> colmax(d, cols[j])]>>]

(***************************************************************************)
(* The three report functions.  Each returns [out, df]: what it hands to   *)
(* the presentation layer, and the dataset as the call leaves it (Python   *)
(* passes df by reference).  Charts are drawn by the plotting library; out *)
(* keeps the series the function computes for them.                        *)
(***************************************************************************)
NoMissingText == "No missing values found."

\* mutant of explore_data: missing values filled in place
explore_data_fillna(d) ==
    [out |-> [head     |-> Min2(5, d.n),
              shape    |-> <<d.n, Len(d.columns)>>,
              dtypes   |-> [j \in 1..Len(d.columns) |-> <<d.columns[j], d.kinds[d.columns[j]]>>],
              missing  |-> IF SeriesSum(isnull_sum(d)) > 0
                           THEN [kind |-> "series", value |-> Positive(isnull_sum(d))]
                           ELSE [kind |-> "text", value |-> NoMissingText],
              describe |-> describe(d)],
     df  |-> [d EXCEPT !.na = [c \in DOMAIN d.na |-> {}]]]

\* mutant of explore_data: the missing counts shown unfiltered
explore_data_unfiltered(d) ==
    [out |-> [head     |-> Min2(5, d.n),
              shape    |-> <<d.n, Len(d.columns)>>,
              dtypes   |-> [j \in 1..Len(d.columns) |-> <<d.columns[j], d.kinds[d.columns[j]]>>],
              missing  |-> IF SeriesSum(isnull_sum(d)) > 0
                           THEN [kind |-> "series", value |-> isnull_sum(d)]
                           ELSE [kind |-> "text", value |-> NoMissingText],
              describe |-> describe(d)],
     df  |-> d]

\* lines 23-36
explore_data(d) ==
    LET missing_values == isnull_sum(d)
    IN  [out |-> [head     |-> Min2(5, d.n),
                  shape    |-> <<d.n, Len(d.columns)>>,
                  dtypes   |-> [j \in 1..Len(d.columns) |-> <<d.columns[j], d.kinds[d.columns[j]]>>],
                  missing  |-> IF SeriesSum(missing_values) > 0
                               THEN [kind |-> "series", value |-> Positive(missing_values)]
                               ELSE [kind |-> "text", value |-> NoMissingText],
                  describe |-> describe(d)],
         df  |-> d]

\* lines 39-71; one result per order sort_values may leave tied entries in
create_visualizations(d) ==
    LET sales_by_fuel == GroupSum(d, "Fuel_Type", "Sales")
        yearly_sales  == GroupSum(d, "Year", "Sales")
    IN  { [out |-> [top_models    |-> head(t, TopN),
                    sales_by_fuel |-> sales_by_fuel,
                    yearly_sales  |-> yearly_sales],
           df  |-> d] : t \in sort_values_desc(GroupSum(d, "Model", "Sales")) }

\* lines 74-97
generate_insights_and_recommendations(d) ==
    [out |-> [n_years    |-> nunique(d, "Year"),
              year_min   |-> colmin(d, "Year"),
              year_max   |-> colmax(d, "Year"),
              top_model  |-> idxmax(GroupSum(d, "Model", "Sales")),
              top_units  |-> max(GroupSum(d, "Model", "Sales")),
              fuel_mode  |-> mode(d, "Fuel_Type")[1],
              avg_price  |-> Mean(d, "Price", Rows(d)),
              best_body  |-> idxmax_mean(GroupMean(d, "Body_Type", "Price")),
              best_year  |-> idxmax(GroupSum(d, "Year", "Sales")),
              n_recommendations |-> 6],
     df  |-> d]

(***************************************************************************)
(* The datasets FnSpec applies the functions to: the synthetic ones, small *)
(* free-form ones with ties and missing values, and ones with more than    *)
(* TopN models.  Every column holds a value in its first row, so that no   *)
(* aggregate is taken over an empty column (where the library raises).     *)
(***************************************************************************)
\* a column read with missing values: an integer column becomes floating
with_missing(d, c, I) ==
    [d EXCEPT !.na[c] = I,
              !.kinds[c] = IF I # {} /\ @ = "i" THEN "f" ELSE @]

RowChoices ==
    [Model : {"Swift", "i20"}, Sales : {SalesLo, SalesHi - 1}, Fuel_Type : {"Petrol", "Diesel"}]

RowSeqs == UNION { [1..n -> RowChoices] : n \in 1..MaxRows }

Const(v, n, kind) == [values |-> [i \in 1..n |-> v], kind |-> kind]

\* rows r; the columns of miss hold no value in the last row (when it is not
\* the first); with extra, a boolean column is added
FreeDataset(r, miss, extra) ==
    LET n == Len(r)
        items == << <<"Make",      Const("Maruti", n, "O")>>,
                    <<"Model",     [values |-> [i \in 1..n |-> r[i].Model], kind |-> "O"]>>,
                    <<"Year",      Const(YearLo, n, "i")>>,
                    <<"Sales",     [values |-> [i \in 1..n |-> r[i].Sales], kind |-> "i"]>>,
                    <<"Price",     Const(PriceLo, n, "i")>>,
                    <<"Fuel_Type", [values |-> [i \in 1..n |-> r[i].Fuel_Type], kind |-> "O"]>>,
                    <<"Body_Type", Const("SUV", n, "O")>> >>
        all == IF extra THEN Append(items, <<"Available", Const(TRUE, n, "b")>>) ELSE items
        last(c) == IF c \in miss /\ n > 1 THEN {n} ELSE {}
    IN  with_missing(with_missing(DataFrame(all), "Body_Type", last("Body_Type")),
                     "Price", last("Price"))

WideNames == <<"A", "B", "C", "D", "E", "F", "G", "H", "I", "J", "K", "L">>

\* TopN + 1 models, one row each; with tie, the last two have equal sales
WideDataset(tie) ==
    LET n == TopN + 1
    IN  DataFrame(<< <<"Make",      Const("Tata", n, "O")>>,
                     <<"Model",     [values |-> [i \in 1..n |-> WideNames[i]], kind |-> "O"]>>,
                     <<"Year",      Const(YearLo, n, "i")>>,
                     <<"Sales",     [values |-> [i \in 1..n |->
                                        SalesLo + (IF tie /\ i = n THEN 1 ELSE n - i)],
                                      kind |-> "i"]>>,
                     <<"Price",     Const(PriceLo, n, "i")>>,
                     <<"Fuel_Type", Const("CNG", n, "O")>>,
                     <<"Body_Type", Const("MUV", n, "O")>> >>)

InputDatasets ==
    {load_data_body(s) : s \in Seeds}
    \cup {FreeDataset(r, miss, FALSE) : r \in RowSeqs, miss \in SUBSET {"Price", "Body_Type"}}
    \cup {FreeDataset(r, {}, TRUE) : r \in {q \in RowSeqs : Len(q) = 1}}
    \cup {WideDataset(tie) : tie \in BOOLEAN}

(***************************************************************************)
(* Spec: a session.  The framework executes the script, and so main, from  *)
(* the top on every interaction; the only thing a run leaves behind is the *)
(* framework's memo of load_data.                                          *)
(***************************************************************************)
Init ==
    /\ cache = <<>>
    /\ draws = 0
    /\ runs = 0
    /\ pc = "start"
    /\ df = <<>>
    /\ first_df = <<>>
    /\ shown = <<>>
    /\ explored = <<>>
    /\ visualized = <<>>
    /\ insights = <<>>

\* mutant of load_data: the decorator left out, every call executes the body
load_data_uncached ==
    {[ret |-> load_data_body(s),
      cache |-> IF load_data_body(s) = ValueError THEN <<>> ELSE <<load_data_body(s)>>,
      draws |-> draws + 1] : s \in Seeds}

\* @st.cache_data def load_data(), lines 8-20: the possible outcomes of one
\* call, [ret, cache, draws].  The memo has one entry (the function takes no
\* argument); a hit returns a copy of it without executing the body.
load_data ==
    IF cache # <<>>
    THEN {[ret |-> cache[1], cache |-> cache, draws |-> draws]}
    ELSE {[ret |-> load_data_body(s),
           cache |-> IF load_data_body(s) = ValueError THEN <<>> ELSE <<load_data_body(s)>>,
           draws |-> draws + 1] : s \in Seeds}

\* lines 101-112: title and introduction
Begin ==
    /\ pc = "start"
    /\ runs < MaxRuns
    /\ runs' = runs + 1
    /\ shown' = <<"Introduction">>
    /\ pc' = "load"
    /\ UNCHANGED <<cache, draws, df, first_df, explored, visualized, insights>>

\* line 115
Load ==
    /\ pc = "load"
    /\ \E r \in load_data :
        /\ cache' = r.cache
        /\ draws' = r.draws
        /\ IF r.ret = ValueError
           THEN pc' = "raised" /\ UNCHANGED <<df, first_df>>
           ELSE /\ df' = <<r.ret>>
                /\ first_df' = IF first_df = <<>> THEN <<r.ret>> ELSE first_df
                /\ pc' = "explore"
    /\ UNCHANGED <<runs, shown, explored, visualized, insights>>

\* mutant of Explore: the exception caught, the run goes on
ExploreCatching ==
    /\ pc = "explore"
    /\ shown' = Append(shown, "Data Exploration")
    /\ \E raises \in BOOLEAN :
        IF raises
        THEN pc' = "visualize" /\ UNCHANGED <<df, explored>>
        ELSE LET r == explore_data(df[1])
             IN  explored' = <<r.out>> /\ df' = <<r.df>> /\ pc' = "visualize"
    /\ UNCHANGED <<cache, draws, runs, first_df, visualized, insights>>

\* lines 118-119.  raises: a call into the statistics, plotting or dashboard
\* library fails (main catches nothing), so the run ends there.
Explore ==
    /\ pc = "explore"
    /\ shown' = Append(shown, "Data Exploration")
    /\ \E raises \in BOOLEAN :
        IF raises
        THEN pc' = "raised" /\ UNCHANGED <<df, explored>>
        ELSE LET r == explore_data(df[1])
             IN  explored' = <<r.out>> /\ df' = <<r.df>> /\ pc' = "visualize"
    /\ UNCHANGED <<cache, draws, runs, first_df, visualized, insights>>

\* lines 122-123
Visualize ==
    /\ pc = "visualize"
    /\ shown' = Append(shown, "Visualizations")
    /\ \E raises \in BOOLEAN :
        IF raises
        THEN pc' = "raised" /\ UNCHANGED <<df, visualized>>
        ELSE \E r \in create_visualizations(df[1]) :
                visualized' = <<r.out>> /\ df' = <<r.df>> /\ pc' = "insights"
    /\ UNCHANGED <<cache, draws, runs, first_df, explored, insights>>

\* lines 126-127
Insights ==
    /\ pc = "insights"
    /\ shown' = Append(shown, "Insights and Recommendations")
    /\ \E raises \in BOOLEAN :
        IF raises
        THEN pc' = "raised" /\ UNCHANGED <<df, insights>>
        ELSE LET r == generate_insights_and_recommendations(df[1])
             IN  insights' = <<r.out>> /\ df' = <<r.df>> /\ pc' = "conclusion"
    /\ UNCHANGED <<cache, draws, runs, first_df, explored, visualized>>

\* lines 130-149
Conclusion ==
    /\ pc = "conclusion"
    /\ shown' = Append(shown, "Conclusion")
    /\ pc' = "done"
    /\ UNCHANGED <<cache, draws, runs, df, first_df, explored, visualized, insights>>

\* mutant of Rerun: the insights of the last run kept across runs
RerunKeeping ==
    /\ pc \in {"done", "raised"}
    /\ runs < MaxRuns
    /\ pc' = "start"
    /\ df' = <<>>
    /\ shown' = <<>>
    /\ explored' = <<>>
    /\ visualized' = <<>>
    /\ UNCHANGED <<cache, draws, runs, first_df, insights>>

\* lines 151-152: the next interaction executes the script again; main's
\* locals and everything rendered are gone, the memo is kept
Rerun ==
    /\ pc \in {"done", "raised"}
    /\ runs < MaxRuns
    /\ pc' = "start"
    /\ df' = <<>>
    /\ shown' = <<>>
    /\ explored' = <<>>
    /\ visualized' = <<>>
    /\ insights' = <<>>
    /\ UNCHANGED <<cache, draws, runs, first_df>>

Next == Begin \/ Load \/ Explore \/ Visualize \/ Insights \/ Conclusion \/ Rerun

Spec == Init /\ [][Next]_vars

(***************************************************************************)
(* FnSpec: the report functions on their own, applied to one dataset in    *)
(* any order, any number of times.  first_df keeps the dataset as created. *)
(***************************************************************************)
FnInit ==
    /\ cache = <<>>
    /\ draws = 0
    /\ runs = 0
    /\ pc = "fn"
    /\ \E d \in InputDatasets : df = <<d>> /\ first_df = <<d>>
    /\ shown = <<>>
    /\ explored = <<>>
    /\ visualized = <<>>
    /\ insights = <<>>

FnExplore ==
    /\ pc = "fn"
    /\ LET r == explore_data(df[1])
       IN  explored' = <<r.out>> /\ df' = <<r.df>>
    /\ UNCHANGED <<cache, draws, runs, pc, first_df, shown, visualized, insights>>

FnVisualize ==
    /\ pc = "fn"
    /\ \E r \in create_visualizations(df[1]) :
        visualized' = <<r.out>> /\ df' = <<r.df>>
    /\ UNCHANGED <<cache, draws, runs, pc, first_df, shown, explored, insights>>

FnInsights ==
    /\ pc = "fn"
    /\ LET r == generate_insights_and_recommendations(df[1])
       IN  insights' = <<r.out>> /\ df' = <<r.df>>
    /\ UNCHANGED <<cache, draws, runs, pc, first_df, shown, explored, visualized>>

FnNext == FnExplore \/ FnVisualize \/ FnInsights

FnSpec == FnInit /\ [][FnNext]_vars

(***************************************************************************)
(* The column classifier of the specification (section 4.2): the numeric   *)
(* and the categorical columns of a dataset, by declared type.             *)
(***************************************************************************)
numeric_columns(d) == Filter(d.columns, {c \in DOMAIN d.kinds : d.kinds[c] \in NumericKinds})
categorical_columns(d) == Filter(d.columns, {c \in DOMAIN d.kinds : d.kinds[c] \in CategoricalKinds})

(***************************************************************************)
(* Properties.                                                             *)
(***************************************************************************)
Range(s) == {s[j] : j \in 1..Len(s)}
IsSynthetic(d) == d.n = Size /\ \E s \in Seeds : d = load_data_body(s)

\* C1: every dataset load_data returns has the seven columns Make, Model, Year,
\* Sales, Price, Fuel_Type, Body_Type in that order, each with exactly 100 values.
LoadDataShape ==
    df # <<>> /\ pc # "fn" =>
        /\ df[1].columns = <<"Make", "Model", "Year", "Sales", "Price", "Fuel_Type", "Body_Type">>
        /\ DOMAIN df[1].data = Range(df[1].columns)
        /\ df[1].n = 100
        /\ \A c \in DOMAIN df[1].data : Len(df[1].data[c]) = 100

LoadDataShapeWitness ==
    /\ pc = "explore"
    /\ df # <<>>
    /\ df[1].data["Year"][1] = 2023
    /\ df[1].data["Fuel_Type"][1] = "CNG"

\* C2: explore_data, create_visualizations and
\* generate_insights_and_recommendations, in any order and any number of times,
\* leave every cell, the column order and the row count of the dataset unchanged.
DatasetImmutable == pc = "fn" => df = first_df

DatasetImmutableWitness ==
    /\ pc = "fn"
    /\ explored # <<>> /\ visualized # <<>> /\ insights # <<>>
    /\ df[1].na["Price"] # {}
    /\ df = first_df

\* C3: over the reruns of main in a session the body of load_data executes at
\* most once, and every run works on the dataset the first run obtained.
CreatedOnce ==
    /\ draws <= 1
    /\ df # <<>> => df = first_df
    /\ cache # <<>> => cache = first_df

CreatedOnceWitness ==
    /\ runs >= 2
    /\ pc = "done"
    /\ draws = 1
    /\ df = first_df

\* C4: a run of main renders its sections once each, in the order introduction,
\* load_data, explore_data, create_visualizations,
\* generate_insights_and_recommendations, conclusion, each step starting only
\* when the ones before it are complete; a run starts with nothing but the
\* framework's memo of the dataset.
Sections ==
    <<"Introduction", "Data Exploration", "Visualizations",
      "Insights and Recommendations", "Conclusion">>

Stage ==
    [start |-> 0, load |-> 1, explore |-> 1, visualize |-> 2, insights |-> 3,
     conclusion |-> 4, done |-> 5]

RunInOrder ==
    /\ pc = "start" =>
          df = <<>> /\ shown = <<>> /\ explored = <<>> /\ visualized = <<>> /\ insights = <<>>
    /\ pc \in DOMAIN Stage =>
          /\ shown = SubSeq(Sections, 1, Stage[pc])
          /\ (df # <<>>) = (pc \notin {"start", "load"})
          /\ (explored # <<>>) = (Stage[pc] >= 2)
          /\ (visualized # <<>>) = (Stage[pc] >= 3)
          /\ (insights # <<>>) = (Stage[pc] >= 4)
    /\ pc = "raised" => \E k \in 1..4 : shown = SubSeq(Sections, 1, k)

RunInOrderWitness ==
    /\ pc = "done"
    /\ runs = 2
    /\ shown = Sections
    /\ insights # <<>>

\* C5: when explore_data, create_visualizations or
\* generate_insights_and_recommendations raises, main does not catch it: the
\* run ends there, the failing section and the later ones render nothing, a
\* later section is reached only when the earlier functions returned, and the
\* dataset is unchanged.
RaisedState ==
    pc = "raised" =>
        /\ Len(shown) \in 2..4
        /\ shown = SubSeq(Sections, 1, Len(shown))
        /\ (explored # <<>>) = (Len(shown) > 2)
        /\ (visualized # <<>>) = (Len(shown) > 3)
        /\ insights = <<>>
        /\ df = first_df
        /\ cache = first_df

ReachedOnlyAfterReturn ==
    /\ pc \in {"visualize", "insights", "conclusion", "done"} => explored # <<>>
    /\ pc \in {"insights", "conclusion", "done"} => visualized # <<>>
    /\ pc \in {"conclusion", "done"} => insights # <<>>

ExceptionPropagates ==
    /\ [](RaisedState /\ ReachedOnlyAfterReturn)
    /\ [][pc = "raised" => pc' = "start" /\ shown' = <<>> /\ cache' = cache]_vars

ExceptionPropagatesWitness ==
    /\ pc = "raised"
    /\ shown = SubSeq(Sections, 1, 3)
    /\ explored # <<>>
    /\ visualized = <<>>

\* C6: the numeric and the categorical columns of a dataset are two disjoint
\* lists in column order whose lengths add up to at most the number of columns;
\* a dataset built by load_data has the numeric columns Year, Sales, Price and
\* the categorical columns Make, Model, Fuel_Type, Body_Type, 7 in all.
ColumnClasses ==
    df # <<>> /\ pc = "fn" =>
        LET num == numeric_columns(df[1])
            cat == categorical_columns(df[1])
        IN  /\ Range(num) \cap Range(cat) = {}
            /\ Len(num) + Len(cat) <= Len(df[1].columns)
            /\ \A j, k \in 1..Len(df[1].columns) :
                  j < k /\ df[1].columns[j] \in Range(num) /\ df[1].columns[k] \in Range(num)
                  => \E a, b \in 1..Len(num) :
                        a < b /\ num[a] = df[1].columns[j] /\ num[b] = df[1].columns[k]
            /\ \A j, k \in 1..Len(df[1].columns) :
                  j < k /\ df[1].columns[j] \in Range(cat) /\ df[1].columns[k] \in Range(cat)
                  => \E a, b \in 1..Len(cat) :
                        a < b /\ cat[a] = df[1].columns[j] /\ cat[b] = df[1].columns[k]
            /\ Cardinality(Range(num)) = Len(num) /\ Cardinality(Range(cat)) = Len(cat)
            /\ explored # <<>> /\ num # <<>> =>
                  [j \in 1..Len(explored[1].describe) |-> explored[1].describe[j][1]] = num
            /\ IsSynthetic(df[1]) =>
                  /\ num = <<"Year", "Sales", "Price">>
                  /\ cat = <<"Make", "Model", "Fuel_Type", "Body_Type">>
                  /\ Len(num) + Len(cat) = 7

ColumnClassesWitness ==
    /\ pc = "fn"
    /\ IsSynthetic(df[1])
    /\ explored # <<>>
    /\ Len(explored[1].describe) = 3

\* C7 (as amended): the most common fuel type reported by
\* generate_insights_and_recommendations is a Fuel_Type value with the maximal
\* row count and, when several values share that count, the smallest of them
\* in code-point order.
MostCommonFuelSmallest ==
    insights # <<>> /\ pc = "fn" =>
        LET m == insights[1].fuel_mode
            vals == unique(df[1], "Fuel_Type")
        IN  /\ m \in vals
            /\ \A w \in vals : CountOf(df[1], "Fuel_Type", w) <= CountOf(df[1], "Fuel_Type", m)
            /\ \A w \in vals :
                  CountOf(df[1], "Fuel_Type", w) = CountOf(df[1], "Fuel_Type", m) => ~StrLess(w, m)

\* the first row of column c holding value v
FirstRow(d, c, v) == CHOOSE i \in notna(d, c) :
                        d.data[c][i] = v /\ \A k \in notna(d, c) : d.data[c][k] = v => i <= k

\* C7 (as claimed): ... when several values share the maximal count, the one
\* that appears first in the column.
MostCommonFuelFirstSeen ==
    insights # <<>> /\ pc = "fn" =>
        LET m == insights[1].fuel_mode
            vals == unique(df[1], "Fuel_Type")
        IN  /\ \A w \in vals : CountOf(df[1], "Fuel_Type", w) <= CountOf(df[1], "Fuel_Type", m)
            /\ \A w \in vals :
                  CountOf(df[1], "Fuel_Type", w) = CountOf(df[1], "Fuel_Type", m)
                  => FirstRow(df[1], "Fuel_Type", m) <= FirstRow(df[1], "Fuel_Type", w)

MostCommonFuelWitness ==
    /\ pc = "fn"
    /\ insights # <<>>
    /\ df[1].n = 2
    /\ df[1].data["Fuel_Type"] = <<"Petrol", "Diesel">>
    /\ insights[1].fuel_mode = "Diesel"

\* C8: explore_data shows "No missing values found." exactly when the missing
\* values summed over all columns are 0, and otherwise exactly the columns with
\* a missing count above 0, with their counts; a dataset built by load_data has
\* a total of 0 and gets the text.
RECURSIVE TotalMissing(_, _)
TotalMissing(d, cols) ==
    IF cols = {} THEN 0
    ELSE LET c == CHOOSE x \in cols : TRUE
         IN  Cardinality(d.na[c]) + TotalMissing(d, cols \ {c})

MissingReport ==
    explored # <<>> /\ pc = "fn" =>
        LET d == df[1]
            total == TotalMissing(d, DOMAIN d.na)
            m == explored[1].missing
        IN  /\ (m.kind = "text") = (total = 0)
            /\ m.kind = "text" => m.value = "No missing values found."
            /\ m.kind # "text" =>
                  /\ m.kind = "series"
                  /\ Range(m.value) = {<<c, Cardinality(d.na[c])>> : c \in {x \in DOMAIN d.na : d.na[x] # {}}}
                  /\ Cardinality(Range(m.value)) = Len(m.value)
            /\ IsSynthetic(d) => total = 0 /\ m.kind = "text"

MissingReportWitness ==
    /\ pc = "fn"
    /\ explored # <<>>
    /\ explored[1].missing.kind = "series"
    /\ explored[1].missing.value = <<<<"Price", 1>>>>
    /\ df[1].na["Body_Type"] = {}

\* the total Sales of model m
ModelTotal(d, m) == Sum(d, "Sales", {i \in Rows(d) : i \notin d.na["Model"] /\ d.data["Model"][i] = m})

TopModelsShape ==
    LET d == df[1]
        t == visualized[1].top_models
    IN  /\ Len(t) = Min2(10, nunique(d, "Model"))
        /\ \A j \in 1..Len(t) : t[j][1] \in unique(d, "Model") /\ t[j][2] = ModelTotal(d, t[j][1])
        /\ \A j, k \in 1..Len(t) : j < k => t[j][1] # t[k][1] /\ t[j][2] >= t[k][2]
        /\ \A m \in unique(d, "Model") : ModelTotal(d, m) <= t[1][2]

PairOf ==
    ("Swift" :> "Maruti") @@ ("i20" :> "Hyundai") @@ ("Nexon" :> "Tata") @@
    ("XUV300" :> "Mahindra") @@ ("City" :> "Honda")

SyntheticRows ==
    df # <<>> /\ pc # "fn" =>
        LET d == df[1]
        IN  /\ \A i \in 1..100 :
                  /\ d.data["Model"][i] = <<"Swift", "i20", "Nexon", "XUV300", "City">>[((i - 1) % 5) + 1]
                  /\ d.data["Make"][i] = PairOf[d.data["Model"][i]]
                  /\ 2015 <= d.data["Year"][i] /\ d.data["Year"][i] <= 2023
                  /\ 5000 <= d.data["Sales"][i] /\ d.data["Sales"][i] <= 49999
                  /\ 500000 <= d.data["Price"][i] /\ d.data["Price"][i] <= 1999999
            /\ \A m \in DOMAIN PairOf : Cardinality({i \in 1..d.n : d.data["Model"][i] = m}) = 20
            /\ insights # <<>> =>
                  /\ insights[1].n_years <= 9
                  /\ insights[1].year_min >= 2015
                  /\ insights[1].year_max <= 2023

SyntheticRowsWitness ==
    /\ pc = "conclusion"
    /\ insights # <<>>
    /\ insights[1].n_years = 9
    /\ insights[1].year_min = 2015
    /\ insights[1].year_max = 2023
    /\ df[1].data["Sales"][1] = 49999
    /\ df[1].data["Price"][2] = 500000

====
